---- MODULE Spec2Model ----
(***************************************************************************)
(* Day 23 (src/day23/day23.py): reduction of a grid maze to a weighted     *)
(* graph over its decision cells, and the longest-simple-path search on    *)
(* that graph, run once under the constrained (part 1) and once under the  *)
(* free (part 2) step rule.                                                *)
(*                                                                         *)
(* Cells are pairs <<row, col>>, 0-indexed as in the source.  A grid is a  *)
(* sequence of rows, a row a sequence of one-character strings.  A Python  *)
(* dict is a sequence of <<key, value>> entries in insertion order.        *)
(***************************************************************************)
EXTENDS Integers, Sequences, FiniteSets, TLC

\* ------------------------------------------------------------------ state
VARIABLES
    lines,     \* driver's lines, the rows of the grid
    pc,        \* the statement of driver that runs next
    start,     \* driver's start
    finish,    \* driver's finish
    points,    \* driver's points
    graph1,    \* driver's graph1
    graph2,    \* driver's graph2
    p1,        \* driver's p1
    p2,        \* driver's p2
    frames,    \* the active calls of dfs, outermost first
    visited,   \* the set object bound to dfs's parameter visited
    touched,   \* history: every node some dfs call has added to a visited set
    build      \* the running build_graph call: its p, graph, stack and seen,
               \* the index of (sx, sy) in points and the statement it is at

vars == <<lines, pc, start, finish, points, graph1, graph2, p1, p2,
          frames, visited, touched, build>>

\* ------------------------------------------------------------------ bounds
Rows == 3
Cols == 3
MaxArrows == 1
MaxNodes == 3
MaxEdges == 3
MaxWeight == 2

\* ------------------------------------------------------------ dict helpers
Range(s) == {s[i] : i \in 1..Len(s)}

InSeq(x, s) == \E i \in 1..Len(s) : s[i] = x

DictHas(d, k) == \E i \in 1..Len(d) : d[i][1] = k

DictGet(d, k) == d[CHOOSE i \in 1..Len(d) : d[i][1] = k][2]

DictKeys(d) == [i \in 1..Len(d) |-> d[i][1]]

\* d[k] = v : an existing key keeps its position, a new key goes last.
DictSet(d, k, v) ==
    IF DictHas(d, k)
    THEN [i \in 1..Len(d) |-> IF d[i][1] = k THEN <<k, v>> ELSE d[i]]
    ELSE Append(d, <<k, v>>)

\* ------------------------------------------------------------------- grid
Wall == "#"
Dot == "."
ArrowChars == {">", "<", "^", "v"}

CellAt(grid, cell) == grid[cell[1] + 1][cell[2] + 1]

is_valid_loc(grid, cell) ==
    /\ 0 <= cell[1] /\ cell[1] < Len(grid)
    /\ 0 <= cell[2] /\ cell[2] < Len(grid[1])

\* Index of the first '.' of a row, 0 when the row has none.
FirstDot(row) ==
    IF \E i \in 1..Len(row) : row[i] = Dot
    THEN (CHOOSE i \in 1..Len(row) :
              row[i] = Dot /\ \A j \in 1..(i - 1) : row[j] # Dot) - 1
    ELSE 0

get_start_finish(grid) ==
    << <<0, FirstDot(grid[1])>>, <<Len(grid) - 1, FirstDot(grid[Len(grid)])>> >>

\* The offsets in the order the source lists them.
StepOffsets == << <<0, 1>>, <<0, -1>>, <<1, 0>>, <<-1, 0>> >>

Shift(cell, d) == <<cell[1] + d[1], cell[2] + d[2]>>

get_nxt_cells_p2(grid, cell) ==
    SelectSeq([i \in 1..4 |-> Shift(cell, StepOffsets[i])],
              LAMBDA c : is_valid_loc(grid, c) /\ CellAt(grid, c) # Wall)

get_nxt_cells_p1(grid, cell) ==
    LET ch == CellAt(grid, cell)
    IN  IF ch = ">" /\ is_valid_loc(grid, Shift(cell, <<0, 1>>))
        THEN << Shift(cell, <<0, 1>>) >>
        ELSE IF ch = "<" /\ is_valid_loc(grid, Shift(cell, <<0, -1>>))
        THEN << Shift(cell, <<0, -1>>) >>
        ELSE IF ch = "^" /\ is_valid_loc(grid, Shift(cell, <<-1, 0>>))
        THEN << Shift(cell, <<-1, 0>>) >>
        ELSE IF ch = "v" /\ is_valid_loc(grid, Shift(cell, <<1, 0>>))
        THEN << Shift(cell, <<1, 0>>) >>
        ELSE get_nxt_cells_p2(grid, cell)

\* All cells of the grid, row by row (the two nested range() loops).
AllCells(grid) ==
    LET w == Len(grid[1])
    IN  [k \in 1..(Len(grid) * w) |-> <<(k - 1) \div w, (k - 1) % w>>]

NeighborCount(grid, cell) ==
    Cardinality({i \in 1..4 :
        /\ is_valid_loc(grid, Shift(cell, StepOffsets[i]))
        /\ CellAt(grid, Shift(cell, StepOffsets[i])) # Wall})

\* Mutant: if neighbors >= 2
get_option_points_two(grid, src, dst) ==
    <<src, dst>> \o
    SelectSeq(AllCells(grid),
              LAMBDA c : CellAt(grid, c) # Wall /\ NeighborCount(grid, c) >= 2)

get_option_points(grid, src, dst) ==
    <<src, dst>> \o
    SelectSeq(AllCells(grid),
              LAMBDA c : CellAt(grid, c) # Wall /\ NeighborCount(grid, c) >= 3)

\* ------------------------------------------------------------ build_graph
NxtCells(grid, cell, p) ==
    IF p = 1 THEN get_nxt_cells_p1(grid, cell) ELSE get_nxt_cells_p2(grid, cell)

\* {p: {} for p in points}
RECURSIVE EmptyGraph(_, _, _)
EmptyGraph(pts, i, graph) ==
    IF i > Len(pts) THEN graph
    ELSE EmptyGraph(pts, i + 1, DictSet(graph, pts[i], <<>>))

\* Mutant: a node ends the walk at any step count, also at 0.
NodeHit_any(steps, cell, pts) == InSeq(cell, pts)

\* if steps != 0 and (nx, ny) in points
NodeHit(steps, cell, pts) == steps # 0 /\ InSeq(cell, pts)

\* Mutant: the walk also writes the edge back into the row of the node met.
Record_both(graph, s, cell, steps) ==
    DictSet(DictSet(graph, s, DictSet(DictGet(graph, s), cell, steps)),
            cell, DictSet(DictGet(graph, cell), s, steps))

\* graph[(sx, sy)][(nx, ny)] = steps
Record(graph, s, cell, steps) ==
    DictSet(graph, s, DictSet(DictGet(graph, s), cell, steps))

\* The cells of nxt that pass "if (xx, yy) not in seen", in nxt's order.
Fresh(nxt, seen) == SelectSeq(nxt, LAMBDA c : c \notin seen)

\* stack.append((steps + 1, xx, yy)) for each of them.
Pushed(steps, fresh) ==
    [i \in 1..Len(fresh) |-> <<steps + 1, fresh[i][1], fresh[i][2]>>]

\* Mutant: the pushed cells are not added to seen.
SeenAdd_skip(seen, fresh) == seen

\* seen.add((xx, yy)) for each of them.
SeenAdd(seen, fresh) == seen \cup Range(fresh)

\* The while loop of one src node: row is graph[(sx, sy)].
RECURSIVE Walk(_, _, _, _, _, _)
Walk(grid, pts, p, stack, seen, row) ==
    IF stack = <<>> THEN row
    ELSE LET top == stack[Len(stack)]
             rest == SubSeq(stack, 1, Len(stack) - 1)
             steps == top[1]
             cell == <<top[2], top[3]>>
         IN  IF NodeHit(steps, cell, pts)
             THEN Walk(grid, pts, p, rest, seen, DictSet(row, cell, steps))
             ELSE LET fresh == Fresh(NxtCells(grid, cell, p), seen)
                  IN  Walk(grid, pts, p, rest \o Pushed(steps, fresh),
                           SeenAdd(seen, fresh), row)

\* The for loop over the src nodes.
RECURSIVE BuildFrom(_, _, _, _, _)
BuildFrom(grid, pts, p, i, graph) ==
    IF i > Len(pts) THEN graph
    ELSE LET s == pts[i]
             row == Walk(grid, pts, p, << <<0, s[1], s[2]>> >>, {s},
                         DictGet(graph, s))
         IN  BuildFrom(grid, pts, p, i + 1, DictSet(graph, s, row))

build_graph(grid, pts, p) ==
    BuildFrom(grid, pts, p, 1, EmptyGraph(pts, 1, <<>>))

\* ---------------------------------------------------------- get_max_steps
\* -float("inf"): below every weight sum, absorbing under +.
NegInf == -1

\* Mutant: the sum of a plain number that stands in for negative infinity.
Plus_finite(v, w) == v + w

Plus(v, w) == IF v = NegInf THEN NegInf ELSE v + w

Max2(a, b) == IF a = NegInf THEN b ELSE IF b = NegInf THEN a
              ELSE IF a >= b THEN a ELSE b

\* Mutant: visited bound to one long-lived set that keeps what was added.
DfsDefaultVisited_stale == touched

\* visited=set() of "def dfs", evaluated each time get_max_steps runs the def.
DfsDefaultVisited == {}

\* max_steps = -float("inf")
DfsInitMax == NegInf

\* Mutant: curr is not added.
VisitedAdd_skip(vis, curr) == vis

\* visited.add(curr)
VisitedAdd(vis, curr) == vis \cup {curr}

\* Mutant: every nxt is entered, visited or not.
MayEnter_always(nxt, vis) == TRUE

\* if nxt not in visited
MayEnter(nxt, vis) == nxt \notin vis

\* Mutant: max_steps = dfs(...) + graph[curr][nxt], the last nxt wins.
Candidate_last(max_steps, sub, w) == Plus(sub, w)

\* Mutant: min(max_steps, dfs(...) + graph[curr][nxt])
Candidate_min(max_steps, sub, w) ==
    IF max_steps = NegInf \/ Plus(sub, w) = NegInf THEN NegInf
    ELSE IF max_steps <= Plus(sub, w) THEN max_steps ELSE Plus(sub, w)

\* Mutant: every edge counts 1.
Candidate_hops(max_steps, sub, w) == Max2(max_steps, Plus(sub, 1))

\* max(max_steps, dfs(...) + graph[curr][nxt])
Candidate(max_steps, sub, w) == Max2(max_steps, Plus(sub, w))

\* Mutant: curr stays in visited.
VisitedRemove_skip(vis, curr) == vis

\* Mutant: visited.clear()
VisitedRemove_clear(vis, curr) == {}

\* visited.remove(curr)
VisitedRemove(vis, curr) == vis \ {curr}

\* Mutant: the search goes on from finish as from any node.
AtFinish_never(curr, dst) == FALSE

\* if curr == finish
AtFinish(curr, dst) == curr = dst

\* dfs as a function of its arguments: <<returned value, visited afterwards>>.
RECURSIVE dfs(_, _, _, _)
RECURSIVE dfs_for(_, _, _, _, _, _)
dfs(graph, curr, dst, vis) ==
    IF AtFinish(curr, dst) THEN <<0, vis>>
    ELSE LET r == dfs_for(graph, curr, dst, VisitedAdd(vis, curr), 1,
                          DfsInitMax)
         IN  <<r[1], VisitedRemove(r[2], curr)>>

dfs_for(graph, curr, dst, vis, i, max_steps) ==
    LET adj == DictGet(graph, curr)
    IN  IF i > Len(adj) THEN <<max_steps, vis>>
        ELSE LET nxt == adj[i][1]
             IN  IF MayEnter(nxt, vis)
                 THEN LET r == dfs(graph, nxt, dst, vis)
                      IN  dfs_for(graph, curr, dst, r[2], i + 1,
                                  Candidate(max_steps, r[1], DictGet(adj, nxt)))
                 ELSE dfs_for(graph, curr, dst, vis, i + 1, max_steps)

get_max_steps(graph, src, dst) ==
    dfs(graph, src, dst, DfsDefaultVisited)[1]

NoCell == <<-1, -1>>

\* No build_graph call is running.
NoBuild == [at |-> "idle", p |-> 0, k |-> 0, graph |-> <<>>, stack |-> <<>>,
            seen |-> {}]

\* The interpreter's recursion limit, scaled to the bounds: it lies above the
\* number of cells of every grid and of nodes of every graph considered, so
\* only a search that recurses without end meets it.
RecursionLimit == (Rows + 2) * (Cols + 1) + MaxNodes

\* ----------------------------------------------------------------- inputs
\* rows x cols grids of '#' and '.', with at most arrows open cells replaced
\* by an arrow.
SmallGrids(rows, cols, arrows) ==
    UNION { UNION { { [r \in 1..rows |-> [c \in 1..cols |->
                          IF <<r - 1, c - 1>> \in A THEN d[<<r - 1, c - 1>>]
                          ELSE base[r][c]]]
                      : d \in [A -> ArrowChars] }
                    : A \in {S \in SUBSET {x \in (0..(rows - 1)) \X (0..(cols - 1)) :
                                              base[x[1] + 1][x[2] + 1] = Dot} :
                                 Cardinality(S) <= arrows} }
            : base \in [1..rows -> [1..cols -> {Wall, Dot}]] }

\* A loop of open cells around a block of walls, rows x cols in all, between
\* a first and a last row of '#' and '.'.
RingGrids(rows, cols) ==
    { [r \in 1..(rows + 2) |->
          IF r = 1 THEN top
          ELSE IF r = rows + 2 THEN bottom
          ELSE [c \in 1..cols |->
                   IF r = 2 \/ r = rows + 1 \/ c = 1 \/ c = cols
                   THEN Dot ELSE Wall]]
      : top \in [1..cols -> {Wall, Dot}], bottom \in [1..cols -> {Wall, Dot}] }

\* Grids of one column, rows high: the straight corridors and their blocked
\* variants.
ColumnGrids(rows) == [1..rows -> [1..1 -> {Wall, Dot}]]

\* Rows of unequal length: a first row of cols - 1 cells above rows of cols
\* cells.  The first row being the shortest, no cell the code reads lies
\* outside its row.
RaggedGrids(rows, cols) ==
    { <<top>> \o rest : top \in [1..(cols - 1) -> {Wall, Dot}],
                        rest \in [1..(rows - 1) -> [1..cols -> {Wall, Dot}]] }

\* The files driver may read: the small grids, the same with one row less
\* and one arrow more, the same of one row, rings, columns, ragged rows and
\* the empty file.
InputGrids(rows, cols, arrows) ==
    SmallGrids(rows, cols, arrows) \cup SmallGrids(rows - 1, cols, arrows + 1)
        \cup SmallGrids(1, cols, arrows)
        \cup RingGrids(rows, cols) \cup ColumnGrids(rows + 2)
        \cup RaggedGrids(rows, cols) \cup {<<>>}

\* The grids the walks of build_graph are followed on step by step.
BuildGrids(rows, cols, arrows) ==
    SmallGrids(rows - 1, cols, arrows) \cup SmallGrids(rows, cols, 0)
        \cup RingGrids(rows, cols)

Init ==
    /\ lines \in InputGrids(Rows, Cols, MaxArrows)
    /\ pc = "get_start_finish"
    /\ start = NoCell
    /\ finish = NoCell
    /\ points = <<>>
    /\ graph1 = <<>>
    /\ graph2 = <<>>
    /\ p1 = NegInf
    /\ p2 = NegInf
    /\ frames = <<>>
    /\ visited = {}
    /\ touched = {}
    /\ build = NoBuild

\* ----------------------------------------------------------------- driver
\* start, finish = get_start_finish(lines)
\* grid[0] of an empty list raises IndexError.
GetStartFinish ==
    /\ pc = "get_start_finish"
    /\ IF lines = <<>>
       THEN /\ pc' = "IndexError"
            /\ UNCHANGED <<start, finish>>
       ELSE /\ start' = get_start_finish(lines)[1]
            /\ finish' = get_start_finish(lines)[2]
            /\ pc' = "get_option_points"
    /\ UNCHANGED <<lines, points, graph1, graph2, p1, p2, frames, visited, touched>>
    /\ UNCHANGED build

\* points = get_option_points(lines, start, finish)
GetOptionPoints ==
    /\ pc = "get_option_points"
    /\ points' = get_option_points(lines, start, finish)
    /\ pc' = "build_graph1"
    /\ UNCHANGED <<lines, start, finish, graph1, graph2, p1, p2, frames, visited,
                   touched>>
    /\ UNCHANGED build

\* graph1 = build_graph(lines, points, p=1)
BuildGraph1 ==
    /\ pc = "build_graph1"
    /\ graph1' = build_graph(lines, points, 1)
    /\ pc' = "build_graph2"
    /\ UNCHANGED <<lines, start, finish, points, graph2, p1, p2, frames, visited,
                   touched>>
    /\ UNCHANGED build

\* Mutant: build_graph fills one dict kept between calls, so the free-mode
\* call rewrites the dict graph1 is bound to.
BuildGraph2_alias ==
    /\ pc = "build_graph2"
    /\ graph2' = build_graph(lines, points, 2)
    /\ graph1' = graph2'
    /\ pc' = "get_max_steps1"
    /\ UNCHANGED <<lines, start, finish, points, p1, p2, frames, visited,
                   touched, build>>

\* graph2 = build_graph(lines, points, p=2)
BuildGraph2 ==
    /\ pc = "build_graph2"
    /\ graph2' = build_graph(lines, points, 2)
    /\ pc' = "get_max_steps1"
    /\ UNCHANGED <<lines, start, finish, points, graph1, p1, p2, frames, visited,
                   touched>>
    /\ UNCHANGED build

\* --------------------------------------------- build_graph, step by step
\* The same two calls, one statement at a time.  build.k is the index in
\* points of the p of the comprehension, then of the (sx, sy) of the for
\* loop; build.at is the statement reached.
Building == pc \in {"build_graph1", "build_graph2"}

\* The (sx, sy) of the running walk.
WalkSrc == points[build.k]

\* The call: p is bound, the dict comprehension starts on an empty dict.
BuildBegin ==
    /\ Building
    /\ build.at = "idle"
    /\ build' = [at |-> "comprehension",
                 p |-> IF pc = "build_graph1" THEN 1 ELSE 2,
                 k |-> 1, graph |-> <<>>, stack |-> <<>>, seen |-> {}]
    /\ UNCHANGED <<lines, pc, start, finish, points, graph1, graph2, p1, p2,
                   frames, visited, touched>>

\* graph = {p: {} for p in points}, one p a step; after the last p the for
\* loop starts at the first of points.
GraphInit ==
    /\ Building
    /\ build.at = "comprehension"
    /\ IF build.k <= Len(points)
       THEN build' = [build EXCEPT
                        !.graph = DictSet(build.graph, points[build.k], <<>>),
                        !.k = build.k + 1]
       ELSE build' = [build EXCEPT !.at = "for", !.k = 1]
    /\ UNCHANGED <<lines, pc, start, finish, points, graph1, graph2, p1, p2,
                   frames, visited, touched>>

\* for sx, sy in points: stack = [(0, sx, sy)]; seen = {(sx, sy)}
WalkBegin ==
    /\ Building
    /\ build.at = "for"
    /\ build.k <= Len(points)
    /\ build' = [build EXCEPT !.at = "while",
                               !.stack = << <<0, WalkSrc[1], WalkSrc[2]>> >>,
                               !.seen = {WalkSrc}]
    /\ UNCHANGED <<lines, pc, start, finish, points, graph1, graph2, p1, p2,
                   frames, visited, touched>>

\* One round of "while stack": pop, then record an edge at a node or push
\* the next cells not seen yet.
WalkPop ==
    /\ Building
    /\ build.at = "while"
    /\ build.stack # <<>>
    /\ LET top == build.stack[Len(build.stack)]
           rest == SubSeq(build.stack, 1, Len(build.stack) - 1)
           steps == top[1]
           cell == <<top[2], top[3]>>
           fresh == Fresh(NxtCells(lines, cell, build.p), build.seen)
       IN  IF NodeHit(steps, cell, points)
           THEN build' = [build EXCEPT
                            !.stack = rest,
                            !.graph = Record(build.graph, WalkSrc, cell, steps)]
           ELSE build' = [build EXCEPT
                            !.stack = rest \o Pushed(steps, fresh),
                            !.seen = SeenAdd(build.seen, fresh)]
    /\ UNCHANGED <<lines, pc, start, finish, points, graph1, graph2, p1, p2,
                   frames, visited, touched>>

\* The stack is empty: on to the next (sx, sy).
WalkEnd ==
    /\ Building
    /\ build.at = "while"
    /\ build.stack = <<>>
    /\ build' = [build EXCEPT !.at = "for", !.k = build.k + 1]
    /\ UNCHANGED <<lines, pc, start, finish, points, graph1, graph2, p1, p2,
                   frames, visited, touched>>

\* return graph, bound to driver's graph1 or graph2.
BuildReturn ==
    /\ Building
    /\ build.at = "for"
    /\ build.k > Len(points)
    /\ graph1' = IF pc = "build_graph1" THEN build.graph ELSE graph1
    /\ graph2' = IF pc = "build_graph2" THEN build.graph ELSE graph2
    /\ pc' = IF pc = "build_graph1" THEN "build_graph2" ELSE "get_max_steps1"
    /\ build' = NoBuild
    /\ UNCHANGED <<lines, start, finish, points, p1, p2, frames, visited,
                   touched>>

NextBuild ==
    BuildBegin \/ GraphInit \/ WalkBegin \/ WalkPop \/ WalkEnd \/ BuildReturn

\* driver after get_option_points, on the grids of BuildGrids.
InitBuild ==
    /\ lines \in BuildGrids(Rows, Cols, MaxArrows)
    /\ start = get_start_finish(lines)[1]
    /\ finish = get_start_finish(lines)[2]
    /\ points = get_option_points(lines, start, finish)
    /\ pc = "build_graph1"
    /\ graph1 = <<>>
    /\ graph2 = <<>>
    /\ p1 = NegInf
    /\ p2 = NegInf
    /\ frames = <<>>
    /\ visited = {}
    /\ touched = {}
    /\ build = NoBuild

SpecBuild == InitBuild /\ [][NextBuild]_vars

\* Every statement of a running call is eventually executed.
SpecBuildFair == SpecBuild /\ WF_vars(NextBuild)

\* ----------------------------------------------------------------- search
Searching == pc \in {"search1", "search2"}

\* The graph argument of the running get_max_steps call.
SearchGraph == IF pc = "search1" THEN graph1 ELSE graph2

\* An active call of dfs: its curr, its position, the index of nxt in
\* graph[curr] and its max_steps; entered is history, the content of visited
\* when the call was made.
Frame(curr, vis) ==
    [curr |-> curr, at |-> "entry", i |-> 0, max_steps |-> NegInf,
     entered |-> vis]

Top == frames[Len(frames)]

\* get_max_steps(graph, start, finish): run "def dfs", then call
\* dfs(graph, start, finish) with visited defaulted.
CallGetMaxSteps ==
    /\ pc \in {"get_max_steps1", "get_max_steps2"}
    /\ pc' = IF pc = "get_max_steps1" THEN "search1" ELSE "search2"
    /\ visited' = DfsDefaultVisited
    /\ frames' = <<Frame(start, DfsDefaultVisited)>>
    /\ UNCHANGED <<lines, start, finish, points, graph1, graph2, p1, p2, touched>>
    /\ UNCHANGED build

\* "return v" of the innermost dfs call: to the caller's max(...) and on to
\* its next nxt, or, from the outermost call, to driver's p1 or p2.
Return(v) ==
    IF Len(frames) = 1
    THEN /\ frames' = <<>>
         /\ p1' = IF pc = "search1" THEN v ELSE p1
         /\ p2' = IF pc = "search2" THEN v ELSE p2
         /\ pc' = IF pc = "search1" THEN "get_max_steps2" ELSE "done"
    ELSE LET caller == frames[Len(frames) - 1]
             w == DictGet(DictGet(SearchGraph, caller.curr), Top.curr)
         IN  /\ frames' = SubSeq(frames, 1, Len(frames) - 2) \o
                          <<[caller EXCEPT
                               !.max_steps = Candidate(caller.max_steps, v, w),
                               !.i = caller.i + 1]>>
             /\ UNCHANGED <<p1, p2, pc>>

\* A call of dfs up to its for statement: return 0 at finish, otherwise
\* initialise max_steps, add curr to visited and look graph[curr] up.
DfsEnter ==
    /\ Searching
    /\ frames # <<>>
    /\ Top.at = "entry"
    /\ IF AtFinish(Top.curr, finish)
       THEN /\ Return(0)
            /\ UNCHANGED <<visited, touched>>
       ELSE /\ visited' = VisitedAdd(visited, Top.curr)
            /\ touched' = touched \cup {Top.curr}
            /\ IF DictHas(SearchGraph, Top.curr)
               THEN /\ frames' = [frames EXCEPT ![Len(frames)] =
                          [Top EXCEPT !.at = "for", !.i = 1,
                                      !.max_steps = DfsInitMax]]
                    /\ pc' = pc
               ELSE /\ frames' = frames
                    /\ pc' = "KeyError"
            /\ UNCHANGED <<p1, p2>>
    /\ UNCHANGED <<lines, start, finish, points, graph1, graph2>>
    /\ UNCHANGED build

\* One round of "for nxt in graph[curr]": recurse into an unvisited nxt,
\* skip a visited one.  The interpreter refuses a call deeper than its
\* recursion limit with RecursionError.
DfsFor ==
    /\ Searching
    /\ frames # <<>>
    /\ Top.at = "for"
    /\ Top.i <= Len(DictGet(SearchGraph, Top.curr))
    /\ LET nxt == DictGet(SearchGraph, Top.curr)[Top.i][1]
       IN  IF MayEnter(nxt, visited)
           THEN IF Len(frames) < RecursionLimit
                THEN /\ frames' = Append(frames, Frame(nxt, visited))
                     /\ pc' = pc
                ELSE /\ frames' = frames
                     /\ pc' = "RecursionError"
           ELSE /\ frames' = [frames EXCEPT ![Len(frames)] =
                                 [Top EXCEPT !.i = Top.i + 1]]
                /\ pc' = pc
    /\ UNCHANGED <<lines, start, finish, points, graph1, graph2, p1, p2,
                   visited, touched>>
    /\ UNCHANGED build

\* The for loop is exhausted: visited.remove(curr); return max_steps.
DfsReturn ==
    /\ Searching
    /\ frames # <<>>
    /\ Top.at = "for"
    /\ Top.i > Len(DictGet(SearchGraph, Top.curr))
    /\ visited' = VisitedRemove(visited, Top.curr)
    /\ Return(Top.max_steps)
    /\ UNCHANGED <<lines, start, finish, points, graph1, graph2, touched>>
    /\ UNCHANGED build

NextSearch == CallGetMaxSteps \/ DfsEnter \/ DfsFor \/ DfsReturn

Next ==
    \/ GetStartFinish
    \/ GetOptionPoints
    \/ BuildGraph1
    \/ BuildGraph2
    \/ NextSearch

Spec == Init /\ [][Next]_vars

\* ------------------------------------------- the search on its own inputs
\* Graphs as build_graph shapes them: every node a key, every edge target a
\* key, no edge from a node to itself, weights from 1.  At most MaxNodes
\* nodes <<k, 0>>, at most MaxEdges edges, every order of every row.
Node(k) == <<k, 0>>

\* The rows of node k with m edges: m distinct targets other than k, in
\* every order, with every choice of weights.
RowsOfLen(k, m) ==
    LET others == {Node(j) : j \in (0..(MaxNodes - 1)) \ {k}}
    IN  {s \in [1..m -> others \X (1..MaxWeight)] :
            \A i, j \in 1..m : i # j => s[i][1] # s[j][1]}

\* How many edges leave each node: at most MaxEdges in all.
RECURSIVE SumTo(_, _)
SumTo(f, k) == IF k < 0 THEN 0 ELSE f[k] + SumTo(f, k - 1)

OutDegrees(edges) ==
    {f \in [0..(MaxNodes - 1) -> 0..(MaxNodes - 1)] :
        SumTo(f, MaxNodes - 1) <= edges}

\* The graphs of nodes k.. whose node j has deg[j] edges.
RECURSIVE GraphsFrom(_, _)
GraphsFrom(k, deg) ==
    IF k = MaxNodes THEN {<<>>}
    ELSE { << <<Node(k), row>> >> \o rest
           : row \in RowsOfLen(k, deg[k]), rest \in GraphsFrom(k + 1, deg) }

Reverse(s) == [i \in 1..Len(s) |-> s[Len(s) + 1 - i]]

\* The same graph with every row iterated in the opposite order.
ReverseRows(graph) == [i \in 1..Len(graph) |-> <<graph[i][1], Reverse(graph[i][2])>>]

InitSearch ==
    /\ lines = <<>>
    /\ \E deg \in OutDegrees(MaxEdges) : graph1 \in GraphsFrom(0, deg)
    /\ graph2 = ReverseRows(graph1)
    /\ points = DictKeys(graph1)
    /\ start = Node(0)
    /\ finish \in {Node(0), Node(MaxNodes - 1)}
    /\ pc = "get_max_steps1"
    /\ p1 = NegInf
    /\ p2 = NegInf
    /\ frames = <<>>
    /\ visited = {}
    /\ touched = {}
    /\ build = NoBuild

SpecSearch == InitSearch /\ [][NextSearch]_vars

\* Every statement of a running call is eventually executed.
SpecSearchFair == SpecSearch /\ WF_vars(NextSearch)

\* ------------------------------------------------- what the claims refer to
Keys(graph) == Range(DictKeys(graph))

HasEdge(graph, a, b) == DictHas(graph, a) /\ DictHas(DictGet(graph, a), b)

\* The simple directed paths that start at a: sequences of distinct nodes,
\* each joined to the next by an edge.  Grow(graph, paths, k) adds to the
\* paths of k nodes their extensions by one more node, and so on.
RECURSIVE Grow(_, _, _)
Grow(graph, paths, k) ==
    IF paths = {} \/ k >= Cardinality(Keys(graph)) THEN paths
    ELSE paths \cup
         Grow(graph,
              UNION { {Append(s, n) : n \in {x \in Keys(graph) :
                          x \notin Range(s) /\ HasEdge(graph, s[k], x)}}
                      : s \in paths },
              k + 1)

SimplePathsFrom(graph, a) == Grow(graph, {<<a>>}, 1)

\* The simple directed paths from a to b.
SimplePaths(graph, a, b) ==
    {s \in SimplePathsFrom(graph, a) : s[Len(s)] = b}

RECURSIVE PathWeight(_, _)
PathWeight(graph, s) ==
    IF Len(s) <= 1 THEN 0
    ELSE DictGet(DictGet(graph, s[1]), s[2]) + PathWeight(graph, Tail(s))

PathWeights(graph, a, b) == {PathWeight(graph, s) : s \in SimplePaths(graph, a, b)}

SetMax(S) == CHOOSE x \in S : \A y \in S : y <= x

\* Every graph that differs from graph only in the order of its rows' entries.
Perms(row) ==
    {[i \in 1..Len(row) |-> row[f[i]]] :
        f \in {h \in [1..Len(row) -> 1..Len(row)] :
                  \A i, j \in 1..Len(row) : i # j => h[i] # h[j]}}

RECURSIVE Reorderings(_, _)
Reorderings(graph, i) ==
    IF i > Len(graph) THEN {<<>>}
    ELSE { << <<graph[i][1], row>> >> \o rest
           : row \in Perms(graph[i][2]), rest \in Reorderings(graph, i + 1) }

\* The steps the puzzle admits out of a cell: under mode 1 an arrow cell
\* admits only the cell it points to; a step never lands outside the grid or
\* on '#'.
ArrowOffset(ch) ==
    IF ch = ">" THEN <<0, 1>> ELSE IF ch = "<" THEN <<0, -1>>
    ELSE IF ch = "^" THEN <<-1, 0>> ELSE <<1, 0>>

Passable(grid, c) == is_valid_loc(grid, c) /\ CellAt(grid, c) # Wall

AdmissibleSteps(grid, cell, mode) ==
    IF mode = 1 /\ CellAt(grid, cell) \in ArrowChars
    THEN {c \in {Shift(cell, ArrowOffset(CellAt(grid, cell)))} : Passable(grid, c)}
    ELSE {c \in {Shift(cell, StepOffsets[i]) : i \in 1..4} : Passable(grid, c)}

\* The number of steps of the longest path from cell to dst that steps on no
\* cell of seen and on no cell twice; NegInf when there is none.
RECURSIVE LongestHike(_, _, _, _, _)
RECURSIVE LongestVia(_, _, _, _, _)
LongestHike(grid, mode, cell, dst, seen) ==
    IF cell = dst THEN 0
    ELSE LongestVia(grid, mode, dst, seen,
                    AdmissibleSteps(grid, cell, mode) \ seen)

LongestVia(grid, mode, dst, seen, todo) ==
    IF todo = {} THEN NegInf
    ELSE LET c == CHOOSE x \in todo : TRUE
         IN  Max2(Plus(LongestHike(grid, mode, c, dst, seen \cup {c}), 1),
                  LongestVia(grid, mode, dst, seen, todo \ {c}))

WellFormed(grid) ==
    /\ Len(grid) >= 1
    /\ \A r \in 1..Len(grid) : Len(grid[r]) = Len(grid[1])
    /\ \E c \in 1..Len(grid[1]) : grid[1][c] = Dot
    /\ \E c \in 1..Len(grid[1]) : grid[Len(grid)][c] = Dot

Symmetric(graph) ==
    \A a \in Keys(graph) : \A b \in Range(DictKeys(DictGet(graph, a))) :
        HasEdge(graph, b, a) /\
        DictGet(DictGet(graph, b), a) = DictGet(DictGet(graph, a), b)

\* ----------------------------------------------------------------- claims
\* C1: in free mode the result of the driver, p2, is the number of steps of
\* the longest path on the grid from the entry to the exit that steps on no
\* '#' and on no cell twice, arrows counting as '.'.
C1_FreeResultIsLongestHike ==
    (pc = "done" /\ WellFormed(lines)
       /\ LongestHike(lines, 2, start, finish, {start}) # NegInf)
    => p2 = LongestHike(lines, 2, start, finish, {start})

\* C2: in constrained mode the result of the driver, p1, is the number of
\* steps of the longest such path that leaves every arrow cell in the
\* direction the arrow points.
C2_ConstrainedResultIsLongestHike ==
    (pc = "done" /\ WellFormed(lines)
       /\ LongestHike(lines, 1, start, finish, {start}) # NegInf)
    => p1 = LongestHike(lines, 1, start, finish, {start})

\* C3: when a simple path from start to finish exists, get_max_steps returns
\* the greatest sum of edge weights over all simple paths from start to
\* finish.
C3_MaxOverSimplePaths ==
    /\ pc = "get_max_steps2"
       => LET ws == PathWeights(graph1, start, finish)
          IN  ws # {} => p1 = SetMax(ws)
    /\ pc = "done"
       => LET ws == PathWeights(graph2, start, finish)
          IN  ws # {} => p2 = SetMax(ws)

C3_Witness ==
    /\ pc = "get_max_steps2"
    /\ Cardinality(PathWeights(graph1, start, finish)) >= 2
    /\ p1 = SetMax(PathWeights(graph1, start, finish))

\* C4: when no path leads from start to finish, get_max_steps returns
\* normally, and returns negative infinity: not 0 and not the weight of any
\* path of the graph.
C4_UnreachableIsNegInf ==
    /\ pc # "KeyError"
    /\ (pc = "get_max_steps2" /\ SimplePaths(graph1, start, finish) = {})
       => /\ p1 = NegInf
          /\ p1 # 0
          /\ \A s \in SimplePathsFrom(graph1, start) : p1 # PathWeight(graph1, s)
    /\ (pc = "done" /\ SimplePaths(graph2, start, finish) = {})
       => /\ p2 = NegInf
          /\ p2 # 0
          /\ \A s \in SimplePathsFrom(graph2, start) : p2 # PathWeight(graph2, s)

C4_Witness ==
    /\ pc = "get_max_steps2"
    /\ SimplePaths(graph1, start, finish) = {}
    /\ Cardinality(touched) >= 2
    /\ p1 = NegInf

\* C5: on a well-formed grid on which both searches find a path, the
\* constrained result is at most the free result.
C5_ConstrainedAtMostFree ==
    (pc = "done" /\ WellFormed(lines) /\ p1 # NegInf /\ p2 # NegInf) => p1 <= p2

\* C6: the graph built under free mode from a well-formed grid is symmetric:
\* an edge a -> b of weight w comes with an edge b -> a of weight w.
C6_FreeGraphSymmetric ==
    (pc = "get_max_steps1" /\ WellFormed(lines)) => Symmetric(graph2)

\* C7: every top-level call of get_max_steps begins with an empty visited
\* set, holding no node that an earlier call visited.
C7_VisitedFreshPerCall ==
    (Searching /\ Len(frames) = 1 /\ Top.at = "entry")
    => (visited = {} /\ visited \cap touched = {})

C7_Witness ==
    /\ pc = "search2"
    /\ Len(frames) = 1
    /\ Top.at = "entry"
    /\ Cardinality(touched) >= 2
    /\ visited = {}

\* C8: the nodes of the active dfs calls, the current path from start, are
\* pairwise distinct.
C8_CurrentPathSimple ==
    \A i, j \in 1..Len(frames) : i # j => frames[i].curr # frames[j].curr

C8_Witness ==
    /\ Searching
    /\ Len(frames) >= 2
    /\ Top.at = "for"
    /\ Top.i <= Len(DictGet(SearchGraph, Top.curr))
    /\ \E k \in 1..(Len(frames) - 1) :
           frames[k].curr = DictGet(SearchGraph, Top.curr)[Top.i][1]

\* C9: a finite value returned by get_max_steps is the sum of the edge
\* weights along some simple path from start to finish.
C9_ValueIsPathWeight ==
    /\ (pc = "get_max_steps2" /\ p1 # NegInf)
       => p1 \in PathWeights(graph1, start, finish)
    /\ (pc = "done" /\ p2 # NegInf)
       => p2 \in PathWeights(graph2, start, finish)

C9_Witness ==
    /\ pc = "done"
    /\ p2 # NegInf
    /\ \E s \in SimplePaths(graph2, start, finish) :
           Len(s) >= 3 /\ PathWeight(graph2, s) = p2 /\ p2 > Len(s) - 1

\* C10: the value returned by get_max_steps is the same for every order in
\* which the edges of the nodes are iterated.
C10_OrderIndependent ==
    pc = "done"
    => /\ p2 = p1
       /\ \A g \in Reorderings(graph1, 1) : get_max_steps(g, start, finish) = p1

C10_Witness ==
    /\ pc = "done"
    /\ graph2 # graph1
    /\ Cardinality(Reorderings(graph1, 1)) >= 2
    /\ Cardinality(PathWeights(graph1, start, finish)) >= 2
    /\ p2 = p1

\* ------------------------------------------------ what the grid claims say
Rectangular(grid) ==
    /\ Len(grid) >= 1
    /\ Len(grid[1]) >= 1
    /\ \A r \in 1..Len(grid) : Len(grid[r]) = Len(grid[1])

HasDot(row) == \E c \in 1..Len(row) : row[c] = Dot

Cells(grid) == (0..(Len(grid) - 1)) \X (0..(Len(grid[1]) - 1))

Orthogonal(cell) ==
    {<<cell[1] + 1, cell[2]>>, <<cell[1] - 1, cell[2]>>,
     <<cell[1], cell[2] + 1>>, <<cell[1], cell[2] - 1>>}

PassableNeighbours(grid, cell) == {n \in Orthogonal(cell) : Passable(grid, n)}

Junctions(grid) ==
    {c \in Cells(grid) :
        Passable(grid, c) /\ Cardinality(PassableNeighbours(grid, c)) >= 3}

\* The corridors from node a to node b: the paths of orthogonal steps over
\* passable cells that meet no node between a and b and no cell twice.
RECURSIVE CorridorGrow(_, _, _, _)
CorridorGrow(grid, nodes, b, paths) ==
    IF paths = {} THEN {}
    ELSE LET ext == UNION { {Append(s, n) :
                               n \in {x \in PassableNeighbours(grid, s[Len(s)]) :
                                         x \notin Range(s) /\ (x = b \/ x \notin nodes)}}
                            : s \in paths }
         IN  {s \in ext : s[Len(s)] = b} \cup
             CorridorGrow(grid, nodes, b, {s \in ext : s[Len(s)] # b})

Corridors(grid, nodes, a, b) == CorridorGrow(grid, nodes, b, {<<a>>})

\* Every step of the path is one the constrained rule admits.
OneWay(grid, s) ==
    \A i \in 1..(Len(s) - 1) : s[i + 1] \in AdmissibleSteps(grid, s[i], 1)

\* The path holds, between its ends, an arrow that points at the next cell.
HasArrowAlong(grid, s) ==
    \E i \in 2..(Len(s) - 1) :
        /\ CellAt(grid, s[i]) \in ArrowChars
        /\ Shift(s[i], ArrowOffset(CellAt(grid, s[i]))) = s[i + 1]

OpenCells(grid) == {c \in Cells(grid) : CellAt(grid, c) = Dot}

\* The passable cells are k '.' cells, entry and exit with one passable
\* neighbour and the others with two, and one path from entry to exit steps
\* on all of them.
IsCorridor(grid, entry, exit) ==
    /\ WellFormed(grid)
    /\ Len(grid[1]) >= 1
    /\ entry # exit
    /\ \A c \in Cells(grid) : Passable(grid, c) => CellAt(grid, c) = Dot
    /\ \A c \in OpenCells(grid) :
           Cardinality(PassableNeighbours(grid, c)) = IF c \in {entry, exit} THEN 1 ELSE 2
    /\ LongestHike(grid, 2, entry, exit, {entry}) = Cardinality(OpenCells(grid)) - 1

\* ------------------------------------------------------- claims C11 - C17
\* C11: under the constrained rule the next cells of a cell holding an arrow
\* are at most the one neighbour the arrow points at, whatever that
\* neighbour is; the next cells of a '.' cell are exactly its in-bounds
\* neighbours that are not '#'.
C11_ConstrainedNextCells ==
    (pc = "build_graph2" /\ Rectangular(lines))
    => \A c \in Cells(lines) :
           LET ch == CellAt(lines, c)
               nxt == Range(get_nxt_cells_p1(lines, c))
           IN  /\ ch \in ArrowChars => nxt \subseteq {Shift(c, ArrowOffset(ch))}
               /\ ch = Dot => nxt = PassableNeighbours(lines, c)

\* C12: the nodes get_option_points returns are entry, exit and the passable
\* cells with three or more passable neighbours, and no other cell.
C12_NodeSet ==
    (pc = "build_graph1" /\ Rectangular(lines))
    => Range(points) = {start, finish} \cup Junctions(lines)

C12_Witness ==
    /\ pc = "build_graph1"
    /\ Rectangular(lines)
    /\ Junctions(lines) \ {start, finish} # {}
    /\ \E c \in Cells(lines) :
           /\ Passable(lines, c)
           /\ Cardinality(PassableNeighbours(lines, c)) = 2
           /\ PassableNeighbours(lines, c) \subseteq Range(points)
           /\ c \notin Range(points)

\* C13: in both graphs every stored weight is a whole number from 1 up, and
\* a node that is an admissible neighbour of a node is stored for it with
\* weight 1.
C13_WeightsFromOne ==
    pc = "get_max_steps1"
    => \A mode \in {1, 2} :
           LET graph == IF mode = 1 THEN graph1 ELSE graph2
           IN  /\ \A a \in Keys(graph) :
                      \A e \in Range(DictGet(graph, a)) : e[2] \in Nat /\ e[2] >= 1
               /\ \A a \in Range(points) :
                      \A b \in AdmissibleSteps(lines, a, mode) \cap Range(points) :
                          HasEdge(graph, a, b) /\ DictGet(DictGet(graph, a), b) = 1

C13_Witness ==
    /\ pc = "get_max_steps1"
    /\ WellFormed(lines)
    /\ \E a \in Range(points) :
           /\ CellAt(lines, a) \in ArrowChars
           /\ \E b \in AdmissibleSteps(lines, a, 1) \cap Range(points) :
                  DictGet(DictGet(graph1, a), b) = 1
    /\ \E a \in Keys(graph2) : \E e \in Range(DictGet(graph2, a)) : e[2] >= 3

\* C14: on a grid that is one corridor of k '.' cells from entry to exit the
\* nodes are entry and exit, the graphs hold one connection, entry - exit,
\* of weight k - 1, and both searches return k - 1.
C14_CorridorIsOneEdge ==
    (pc = "done" /\ Rectangular(lines) /\ IsCorridor(lines, start, finish))
    => LET k == Cardinality(OpenCells(lines))
       IN  /\ Range(points) = {start, finish}
           /\ \A graph \in {graph1, graph2} :
                  /\ DictGet(graph, start) = << <<finish, k - 1>> >>
                  /\ \A a \in Keys(graph) : \A e \in Range(DictGet(graph, a)) :
                         {a, e[1]} = {start, finish} /\ e[2] = k - 1
           /\ p1 = k - 1
           /\ p2 = k - 1

\* The straight corridor of five cells: 4 steps.
C14_Witness ==
    /\ pc = "done"
    /\ Rectangular(lines)
    /\ IsCorridor(lines, start, finish)
    /\ Len(lines) = 5
    /\ Len(lines[1]) = 1
    /\ p1 = 4
    /\ p2 = 4

\* C15: when one corridor only joins nodes a and b, the constrained rule
\* admits it from a to b and it holds an arrow pointing on towards b, the
\* constrained graph has the edge a -> b and has no edge b -> a.
C15_OneWayCorridor ==
    (pc = "build_graph2" /\ Rectangular(lines))
    => \A a, b \in {c \in Range(points) : Passable(lines, c)} :
           LET cs == Corridors(lines, Range(points), a, b)
           IN  (/\ a # b
                /\ Cardinality(cs) = 1
                /\ \A s \in cs : OneWay(lines, s) /\ HasArrowAlong(lines, s))
               => (HasEdge(graph1, a, b) /\ ~HasEdge(graph1, b, a))

\* C16: when the first or the last row holds no '.', the run stops at
\* get_start_finish with an error: no position is returned and no later
\* step runs.
C16_NoEndpointNoResult ==
    (Rectangular(lines) /\ (~HasDot(lines[1]) \/ ~HasDot(lines[Len(lines)])))
    => /\ pc \in {"get_start_finish", "EndpointNotFound"}
       /\ start = NoCell
       /\ finish = NoCell

\* C17: on an empty grid or a grid with rows of unequal length the run
\* stops with an error before get_start_finish or any later step has
\* produced anything.
C17_BadFormatNoResult ==
    (lines = <<>> \/ \E r \in 1..Len(lines) : Len(lines[r]) # Len(lines[1]))
    => /\ pc \in {"get_start_finish", "FormatError", "IndexError"}
       /\ start = NoCell
       /\ finish = NoCell
       /\ points = <<>>

\* ------------------------------------------------------- claims C18 - C20
\* The nodes of the active dfs calls, outermost first.
PathNodes == {frames[k].curr : k \in 1..Len(frames)}

\* C18: when a call of dfs returns, visited is what it was when the call was
\* made, and it is empty once the top-level call has returned.
C18_BacktrackRestores ==
    /\ [][(Searching /\ Len(frames') < Len(frames)) => visited' = Top.entered]_vars
    /\ [](pc \in {"get_max_steps2", "done"} => visited = {})

\* A call made from this node has returned; its node was added to visited
\* and is out of it again.
C18_Witness ==
    /\ pc = "search1"
    /\ frames # <<>>
    /\ Top.at = "for"
    /\ Top.i >= 2
    /\ visited = Top.entered \cup {Top.curr}
    /\ touched \ visited # {}

C20_NeverPastFinish ==
    /\ [](\A k \in 1..Len(frames) :
              frames[k].curr = finish
              => (k = Len(frames) /\ frames[k].at = "entry"))
    /\ [][(Searching /\ frames # <<>> /\ Top.curr = finish /\ frames' # frames)
          => IF Len(frames) = 1
             THEN /\ frames' = <<>>
                  /\ pc = "search1" => p1' = 0
                  /\ pc = "search2" => p2' = 0
             ELSE LET caller == frames[Len(frames) - 1]
                      w == DictGet(DictGet(SearchGraph, caller.curr), finish)
                  IN  /\ Len(frames') = Len(frames) - 1
                      /\ frames'[Len(frames')].max_steps =
                             IF caller.max_steps = NegInf \/ caller.max_steps < w
                             THEN w ELSE caller.max_steps]_vars

\* The call at finish has returned to a caller that had no path yet, while
\* finish has an edge to a node that was free to enter.
C20_Witness ==
    /\ Searching
    /\ frames # <<>>
    /\ Top.at = "for"
    /\ Top.i >= 2
    /\ LET row == DictGet(SearchGraph, Top.curr)
       IN  /\ row[Top.i - 1][1] = finish
           /\ Top.max_steps = row[Top.i - 1][2]
    /\ \E e \in Range(DictGet(SearchGraph, finish)) : e[1] \notin visited

\* ------------------------------------------------------- claims C21 - C30
\* The cells that i admissible steps from a lead to when no cell between a
\* and the last one is a node.
RECURSIVE StepsFrom(_, _, _, _, _)
StepsFrom(grid, nodes, mode, a, i) ==
    IF i = 0 THEN {a}
    ELSE LET before == StepsFrom(grid, nodes, mode, a, i - 1)
             from == IF i = 1 THEN before ELSE before \ nodes
         IN  UNION {AdmissibleSteps(grid, c, mode) : c \in from}

Backed(grid, nodes, mode, a, b, w) ==
    w >= 1 /\ b \in StepsFrom(grid, nodes, mode, a, w)

AllBacked(grid, nodes, mode, graph) ==
    \A a \in Keys(graph) : \A b \in Range(DictKeys(DictGet(graph, a))) :
        Backed(grid, nodes, mode, a, b, DictGet(DictGet(graph, a), b))

\* C21: on a well-formed grid every edge graph[a][b] = w of the constrained
\* and of the free graph is backed by w admissible steps of its mode from a
\* to b that meet no node in between.
C21_EdgesBacked ==
    (pc = "get_max_steps1" /\ WellFormed(lines))
    => /\ AllBacked(lines, Range(points), 1, graph1)
       /\ AllBacked(lines, Range(points), 2, graph2)

\* The free graph alone keeps that promise.
C21_FreeEdgesBacked ==
    (pc = "get_max_steps1" /\ WellFormed(lines))
    => AllBacked(lines, Range(points), 2, graph2)

\* The cells the running walk has pushed on its stack or added to seen.
WalkCells ==
    build.seen \cup {<<build.stack[i][2], build.stack[i][3]>> :
                        i \in 1..Len(build.stack)}

\* C22: on a well-formed grid, in both modes, every cell a walk of
\* build_graph has pushed on its stack or added to seen is an in-bounds
\* cell that is not '#'.
C22_WalkOnPassable ==
    (Building /\ WellFormed(lines))
    => \A c \in WalkCells : Passable(lines, c)

\* The walks of free mode keep that promise.
C22_FreeWalkOnPassable ==
    (Building /\ WellFormed(lines) /\ build.p = 2)
    => \A c \in WalkCells : Passable(lines, c)

\* The cells a step of the walk pushes: the entries of the stack after the
\* step that lie above what the pop left.
NewCells ==
    {<<build'.stack[i][2], build'.stack[i][3]>> :
        i \in Len(build.stack)..Len(build'.stack)}

\* C23: in both modes build_graph returns, which it does once the walk of
\* every node has emptied its stack; and a step of a walk pushes only cells
\* not seen before, each once, and adds them to seen, so that no cell is
\* pushed twice within one walk.
C23_BuildTerminates ==
    /\ <>(pc = "get_max_steps1")
    /\ [][WalkPop => /\ NewCells \cap build.seen = {}
                     /\ NewCells \subseteq build'.seen
                     /\ Cardinality(NewCells) =
                            Len(build'.stack) - Len(build.stack) + 1]_vars

\* A walk has ended after it went all around a loop of corridor cells that
\* leads back to its own start node.
C23_Witness ==
    /\ lines \in RingGrids(Rows, Cols)
    /\ build.at = "while"
    /\ build.stack = <<>>
    /\ WalkSrc[1] \in 1..Rows
    /\ {c \in Cells(lines) : c[1] \in 1..Rows /\ Passable(lines, c)}
           \subseteq build.seen

\* Some edge of the graph lies on a cycle of two nodes.
HasCycle(graph) ==
    \E a \in Keys(graph) : \E b \in Keys(graph) :
        HasEdge(graph, a, b) /\ HasEdge(graph, b, a)

\* C24: both get_max_steps calls return on every graph, with cycles or
\* without, the finish reachable or not.
C24_SearchTerminates == <>(pc = "done")

\* Both calls have returned on a graph with a cycle whose finish cannot be
\* reached, after dfs went round the cycle.
C24_Witness ==
    /\ pc = "done"
    /\ HasCycle(graph1)
    /\ p1 = NegInf
    /\ p2 = NegInf
    /\ Cardinality(touched) >= 2

\* C25: while get_max_steps runs, the number of active dfs calls is at most
\* the number of nodes of its graph.
C25_DepthAtMostNodes ==
    Searching => Len(frames) <= Cardinality(Keys(SearchGraph))

\* The bound is met: as many calls are active as the graph has nodes, the
\* innermost one entered from a node that is not the start.
C25_Witness ==
    /\ Searching
    /\ Len(frames) = Cardinality(Keys(SearchGraph))
    /\ Len(frames) >= 3
    /\ visited # {}

\* C26: no step of a get_max_steps call changes graph1 or graph2; no step
\* of a build_graph call changes the grid or the node list; and the
\* free-mode build_graph call leaves graph1 as the constrained-mode call
\* returned it.
C26_InputsUnchanged ==
    [][/\ (pc \in {"get_max_steps1", "search1", "get_max_steps2", "search2"}
           => graph1' = graph1 /\ graph2' = graph2)
       /\ (Building => lines' = lines /\ points' = points)
       /\ (pc = "build_graph2" => graph1' = graph1)]_vars

\* Both searches have returned a number on two graphs that differ, each
\* still what build_graph made of the grid and the node list.
C26_Witness ==
    /\ pc = "done"
    /\ p1 # NegInf
    /\ graph1 # graph2
    /\ graph1 = build_graph(lines, points, 1)
    /\ graph2 = build_graph(lines, points, 2)
    /\ points = get_option_points(lines, start, finish)

\* C27: a step of the walk started from node s leaves the keys of graph as
\* they are, in number and order, and leaves the row graph[t] of every
\* other node t as it is.
C27_WalkWritesOwnRow ==
    [][(Building /\ build.at = "while")
       => /\ DictKeys(build'.graph) = DictKeys(build.graph)
          /\ \A t \in Keys(build.graph) :
                 t # WalkSrc
                 => DictGet(build'.graph, t) = DictGet(build.graph, t)]_vars

\* The walk of a later node has ended with edges in its row, next to the
\* row the walk of the first node filled before.
C27_Witness ==
    /\ Building
    /\ build.at = "while"
    /\ build.stack = <<>>
    /\ build.k >= 2
    /\ WalkSrc # points[1]
    /\ DictGet(build.graph, WalkSrc) # <<>>
    /\ DictGet(build.graph, points[1]) # <<>>

\* Each key once, the keys the nodes, every edge to another node.
WellFormedGraph(graph, nodes) ==
    /\ Keys(graph) = nodes
    /\ Len(graph) = Cardinality(nodes)
    /\ \A a \in Keys(graph) :
           LET targets == DictKeys(DictGet(graph, a))
           IN  /\ Range(targets) \subseteq nodes
               /\ a \notin Range(targets)
               /\ Cardinality(Range(targets)) = Len(targets)

\* C28: on a rectangular grid the keys of graph1 and of graph2 are entry,
\* exit and the junctions, each once, every edge leads to one of them, and
\* no node has an edge to itself.
C28_GraphWellFormed ==
    (pc = "get_max_steps1" /\ Rectangular(lines))
    => /\ WellFormedGraph(graph1, {start, finish} \cup Junctions(lines))
       /\ WellFormedGraph(graph2, {start, finish} \cup Junctions(lines))

\* Both graphs are built, with edges, on a well-formed grid whose entry or
\* exit has three passable neighbours and so stands twice in points.
C28_Witness ==
    /\ pc = "get_max_steps1"
    /\ WellFormed(lines)
    /\ start # finish
    /\ \E i \in 3..Len(points) : points[i] \in {start, finish}
    /\ \E a \in Keys(graph1) : DictGet(graph1, a) # <<>>

\* C29: on a well-formed grid every edge of the constrained graph is an
\* edge of the free graph, with the same weight.
C29_ConstrainedSubGraph ==
    (pc = "get_max_steps1" /\ WellFormed(lines))
    => \A a \in Keys(graph1) : \A b \in Range(DictKeys(DictGet(graph1, a))) :
           /\ HasEdge(graph2, a, b)
           /\ DictGet(DictGet(graph2, a), b) = DictGet(DictGet(graph1, a), b)

\* C30: on a grid of one row entry and exit are the same cell; when they
\* are, each get_max_steps call returns from its first dfs call, with
\* nothing added to visited and no second dfs call made, and returns 0,
\* which is not the value of an unreachable exit.
C30_EntryIsExit ==
    /\ (Len(lines) = 1 /\ pc \notin {"get_start_finish", "IndexError"})
       => start = finish
    /\ (start = finish /\ Searching)
       => touched = {} /\ visited = {} /\ Len(frames) <= 1
    /\ (start = finish /\ pc \in {"get_max_steps2", "search2", "done"})
       => p1 = 0 /\ p1 # NegInf
    /\ (start = finish /\ pc = "done")
       => p2 = 0 /\ p2 # NegInf

\* driver is through on a one-row grid with more than one open cell.
C30_Witness ==
    /\ pc = "done"
    /\ Len(lines) = 1
    /\ Cardinality(OpenCells(lines)) >= 2
    /\ start = finish
    /\ p1 = 0
    /\ p2 = 0
====
